---- MODULE Spec2Model ----
(***************************************************************************)
(* SpatialBench benchmark runner: the orchestrator (runner.py), the run    *)
(* summary and its aggregation (benchmark/reporting.py) and the engine     *)
(* contract it drives (benchmark/engine_base.py).                          *)
(*                                                                         *)
(* Conventions of the model                                                *)
(*   - elapsed times (Python floats) are naturals, in timer ticks;         *)
(*   - a quotient the code computes (mean, median, success_rate) is kept   *)
(*     as an exact fraction <<numerator, denominator>>, and so are the    *)
(*     min and max of an aggregated entry (denominator 1);                 *)
(*   - Python None is the empty tuple <<>> for statistics and the string   *)
(*     NoneMsg for error messages;                                         *)
(*   - a query identifier "q<digits>" is the tuple of its decimal digits,  *)
(*     "q10" is <<1, 0>>, so that int(x[1:]) is a computed conversion.     *)
(***************************************************************************)
EXTENDS Integers, Sequences, FiniteSets, TLC

\* ------------------------------------------------------------------ bounds
MaxResults == 3     \* add_result calls on one summary (reporting runs)
MaxDur == 2         \* largest elapsed time of a record (reporting runs)
MaxIter == 2        \* largest --iterations value
MaxReq == 2         \* longest --queries list

\* --------------------------------------------------------------- fractions
None == <<>>
Frac(n, d) == <<n, d>>
FracEq(a, b) == a[1] * b[2] = b[1] * a[2]
FracLeq(a, b) == a[1] * b[2] <= b[1] * a[2]

\* ------------------------------------------------------------ list helpers
RECURSIVE SumSeq(_)
SumSeq(s) == IF s = <<>> THEN 0 ELSE Head(s) + SumSeq(Tail(s))

RECURSIVE SelectIdx(_, _)
\* the sub-list of s at the (ascending) positions in idx
SelectIdx(s, idx) ==
    IF idx = {} THEN <<>>
    ELSE LET m == CHOOSE i \in idx : \A j \in idx : i <= j
         IN  <<s[m]>> \o SelectIdx(s, idx \ {m})

\* Python's min() and max() over a non-empty list
PyMin(times) == CHOOSE x \in {times[i] : i \in DOMAIN times} :
                    \A i \in DOMAIN times : x <= times[i]
PyMax(times) == CHOOSE x \in {times[i] : i \in DOMAIN times} :
                    \A i \in DOMAIN times : x >= times[i]

RECURSIVE InsertSorted(_, _)
InsertSorted(x, s) ==
    IF s = <<>> THEN <<x>>
    ELSE IF x < Head(s) THEN <<x>> \o s
    ELSE <<Head(s)>> \o InsertSorted(x, Tail(s))

RECURSIVE Sorted(_)
\* sorted(data), ascending
Sorted(s) == IF s = <<>> THEN <<>> ELSE InsertSorted(Head(s), Sorted(Tail(s)))

\* statistics.mean: the exact sum over the count
mean(times) == Frac(SumSeq(times), Len(times))

\* statistics.median: sort, then the middle value (odd n) or the mean of the
\* two middle values (even n)
MedianNoHalve(times) ==
    LET data == Sorted(times)
        n == Len(data)
    IN  IF n % 2 = 1 THEN Frac(data[(n \div 2) + 1], 1)
        ELSE Frac(data[n \div 2] + data[(n \div 2) + 1], 1)

median(times) ==
    LET data == Sorted(times)
        n == Len(data)
    IN  IF n % 2 = 1 THEN Frac(data[(n \div 2) + 1], 1)
        ELSE Frac(data[n \div 2] + data[(n \div 2) + 1], 2)

\* statistics.stdev is the square root of the sample variance; the model
\* keeps the variance ss/(n-1), ss = sum((x - mean)^2) = (n*sum(x^2) - sum(x)^2)/n
variance(times) ==
    LET n == Len(times)
        sq == [i \in DOMAIN times |-> times[i] * times[i]]
    IN  Frac(n * SumSeq(sq) - SumSeq(times) * SumSeq(times), n * (n - 1))

\* --------------------------------------------------------- QueryResult data
NoneMsg == "None"
QueryIds == {<<1>>, <<2>>}
Messages == {NoneMsg, "", "e1"}

\* QueryResult(query_name, engine, success, duration_seconds=0.0,
\*             error_message=None, iteration=1)
QueryResult(q, ok, dur, msg, it) ==
    [query_name |-> q, success |-> ok, duration_seconds |-> dur,
     row_count |-> 0, error_message |-> msg, iteration |-> it]

\* ------------------------------------------------------- BenchmarkSummary
BenchmarkSummary_LoadTimed(eng, iters) ==
    [engine |-> eng, total_queries |-> 0, successful_queries |-> 0,
     failed_queries |-> 0, total_time |-> 0, results |-> <<>>,
     iterations |-> iters, load_time |-> 3, include_load_time |-> TRUE]

\* BenchmarkSummary(engine, scale_factor, iterations) with its defaults
BenchmarkSummary(eng, iters) ==
    [engine |-> eng, total_queries |-> 0, successful_queries |-> 0,
     failed_queries |-> 0, total_time |-> 0, results |-> <<>>,
     iterations |-> iters, load_time |-> 0, include_load_time |-> FALSE]

add_result_AddsFailedTime(s, r) ==
    [s EXCEPT !.results = Append(@, r),
              !.total_queries = @ + 1,
              !.successful_queries = IF r.success THEN @ + 1 ELSE @,
              !.total_time = @ + r.duration_seconds,
              !.failed_queries = IF r.success THEN @ ELSE @ + 1]

add_result_DropsFailedCount(s, r) ==
    [s EXCEPT !.results = Append(@, r),
              !.total_queries = @ + 1,
              !.successful_queries = IF r.success THEN @ + 1 ELSE @,
              !.total_time = IF r.success THEN @ + r.duration_seconds ELSE @]

add_result(s, r) ==
    [s EXCEPT !.results = Append(@, r),
              !.total_queries = @ + 1,
              !.successful_queries = IF r.success THEN @ + 1 ELSE @,
              !.total_time = IF r.success THEN @ + r.duration_seconds ELSE @,
              !.failed_queries = IF r.success THEN @ ELSE @ + 1]

get_total_time_PerIteration(s) ==
    IF s.include_load_time THEN s.total_time + s.load_time * s.iterations
    ELSE s.total_time

get_total_time(s) ==
    IF s.include_load_time THEN s.total_time + s.load_time
    ELSE s.total_time

FirstAppearance_EveryRecord(results, seen) ==
    [i \in DOMAIN results |-> results[i].query_name]

\* the keys of by_query, in insertion order (first appearance of each name)
RECURSIVE FirstAppearance(_, _)
FirstAppearance(results, seen) ==
    IF results = <<>> THEN <<>>
    ELSE IF Head(results).query_name \in seen
         THEN FirstAppearance(Tail(results), seen)
         ELSE <<Head(results).query_name>> \o
              FirstAppearance(Tail(results), seen \cup {Head(results).query_name})

by_query_SuccessOnly(results, q) ==
    SelectIdx(results, {i \in DOMAIN results :
                           results[i].query_name = q /\ results[i].success})

\* by_query[q]: the records named q, in record order
by_query(results, q) ==
    SelectIdx(results, {i \in DOMAIN results : results[i].query_name = q})

successful_AllRecords(results) == results

\* successful = [r for r in results if r.success]
successful(results) ==
    SelectIdx(results, {i \in DOMAIN results : results[i].success})

errors_Unfiltered(results) ==
    [i \in DOMAIN results |-> results[i].error_message]

\* [r.error_message for r in results if r.error_message]
errors(results) ==
    LET keep == {i \in DOMAIN results :
                    results[i].error_message \notin {NoneMsg, ""}}
        kept == SelectIdx(results, keep)
    IN  [i \in DOMAIN kept |-> kept[i].error_message]

AggEntry_StdevGuardOnGroup(q, results) ==
    LET succ == successful(results)
        times == [i \in DOMAIN succ |-> succ[i].duration_seconds]
    IN  IF times # <<>>
        THEN [query_name |-> q,
              min |-> Frac(PyMin(times), 1),
              max |-> Frac(PyMax(times), 1),
              mean |-> mean(times),
              median |-> median(times),
              std_dev |-> IF Len(results) > 1 THEN variance(times) ELSE Frac(0, 1),
              iterations |-> Len(results),
              successful_iterations |-> Len(succ),
              success_rate |-> Frac(Len(succ), Len(results)),
              has_errors |-> FALSE,
              errors |-> <<>>]
        ELSE [query_name |-> q,
              min |-> None, max |-> None, mean |-> None, median |-> None,
              std_dev |-> None,
              iterations |-> Len(results),
              successful_iterations |-> 0,
              success_rate |-> Frac(0, 1),
              has_errors |-> TRUE,
              errors |-> errors(results)]

\* the statistics dict of one group of get_aggregated_results
AggEntry(q, results) ==
    LET succ == successful(results)
        times == [i \in DOMAIN succ |-> succ[i].duration_seconds]
    IN  IF times # <<>>
        THEN [query_name |-> q,
              min |-> Frac(PyMin(times), 1),
              max |-> Frac(PyMax(times), 1),
              mean |-> mean(times),
              median |-> median(times),
              std_dev |-> IF Len(times) > 1 THEN variance(times) ELSE Frac(0, 1),
              iterations |-> Len(results),
              successful_iterations |-> Len(succ),
              success_rate |-> Frac(Len(succ), Len(results)),
              has_errors |-> FALSE,
              errors |-> <<>>]
        ELSE [query_name |-> q,
              min |-> None, max |-> None, mean |-> None, median |-> None,
              std_dev |-> None,
              iterations |-> Len(results),
              successful_iterations |-> 0,
              success_rate |-> Frac(0, 1),
              has_errors |-> TRUE,
              errors |-> errors(results)]

\* get_aggregated_results: one entry per key of by_query, in insertion order
get_aggregated_results(s) ==
    LET keys == FirstAppearance(s.results, {})
    IN  [k \in DOMAIN keys |-> AggEntry(keys[k], by_query(s.results, keys[k]))]

\* -------------------------------------------------------- engine registry
\* ENGINES (keys in dict order) and, per class, uses_sql and dialect
ENGINES == <<"duckdb", "sedona", "databricks", "geopandas", "polars">>

RegistryKeys == {ENGINES[i] : i \in DOMAIN ENGINES}

\* ENGINES[key]: the class registered under a key
EngineClass(key) ==
    CASE key = "duckdb" -> "DuckDBEngine"
      [] key = "sedona" -> "SedonaSparkEngine"
      [] key = "databricks" -> "DatabricksEngine"
      [] key = "geopandas" -> "GeopandasEngine"
      [] key = "polars" -> "SpatialPolarsEngine"

\* implementations of the engine contract outside the registry, as the tests
\* of the contract define them: SQLEngine (uses_sql left at its default) and
\* FunctionEngine (uses_sql overridden to False), both with dialect "test"
Implementations == {"sql_engine", "function_engine"}

uses_sql(name) == name \notin {"geopandas", "polars", "function_engine"}

dialect(name) ==
    CASE name = "duckdb" -> "DuckDB"
      [] name = "sedona" -> "SedonaSpark"
      [] name = "databricks" -> "Databricks"
      [] name = "geopandas" -> "Geopandas"
      [] name = "polars" -> "Polars"
      [] name \in Implementations -> "test"

\* rank of a name in Python's string order
StrRank(name) ==
    CASE name = "databricks" -> 1
      [] name = "duckdb" -> 2
      [] name = "geopandas" -> 3
      [] name = "polars" -> 4
      [] name = "sedona" -> 5

RECURSIVE SortByRank(_)
SortByRank(S) ==
    IF S = {} THEN <<>>
    ELSE LET m == CHOOSE x \in S : \A y \in S : StrRank(x) <= StrRank(y)
         IN  <<m>> \o SortByRank(S \ {m})

\* list_engines(): sorted(ENGINES.keys())
list_engines == SortByRank(RegistryKeys)

\* the --engine values tried, and str.lower() on them
EngineArgs == {"DuckDB", "geopandas", "sedona", "nonexistent", "all"}

lower(s) ==
    CASE s \in {"DuckDB", "DUCKDB"} -> "duckdb"
      [] s = "Sedona" -> "sedona"
      [] s = "SedonaDB" -> "sedonadb"
      [] OTHER -> s

\* ------------------------------------------------------- query identifiers
RECURSIVE DigitsOf(_)
\* str(i) for i >= 0, as a tuple of digits
DigitsOf(i) == IF i < 10 THEN <<i>> ELSE DigitsOf(i \div 10) \o <<i % 10>>

RECURSIVE IntOf(_)
\* int(x[1:]) of an identifier
IntOf(d) == IF d = <<>> THEN 0
            ELSE 10 * IntOf(SubSeq(d, 1, Len(d) - 1)) + d[Len(d)]

NumQueries == 12

\* the keys of {f"q{i}": "" for i in range(1, 13)}, in insertion order
FunctionQueries == [i \in 1..NumQueries |-> DigitsOf(i)]

\* the keys of benchmark.queries() of print_queries.py, the same q1..q12 for
\* every dialect
PrintQueries == [i \in 1..NumQueries |-> DigitsOf(i)]

QUERY_CLASSES == {"SedonaSpark", "Databricks", "DuckDB", "SedonaDB"}

\* get_queries(dialect): raises ValueError for a dialect outside QUERY_CLASSES
get_queries_raises(d) == d \notin QUERY_CLASSES

get_queries(d) == PrintQueries

Range(s) == {s[i] : i \in DOMAIN s}

RECURSIVE DictKeys(_, _, _)
\* keys of {q: all_queries[q] for q in queries if q in all_queries}: request
\* order, a repeated key keeps its first position
DictKeys(queries, all, seen) ==
    IF queries = <<>> THEN <<>>
    ELSE IF Head(queries) \in all /\ Head(queries) \notin seen
         THEN <<Head(queries)>> \o DictKeys(Tail(queries), all, seen \cup {Head(queries)})
         ELSE DictKeys(Tail(queries), all, seen)

RECURSIVE LexLess(_, _)
\* Python's string order on two identifiers (digit by digit, a prefix first)
LexLess(a, b) ==
    IF b = <<>> THEN FALSE
    ELSE IF a = <<>> THEN TRUE
    ELSE IF Head(a) # Head(b) THEN Head(a) < Head(b)
    ELSE LexLess(Tail(a), Tail(b))

RECURSIVE InsertLex(_, _)
InsertLex(x, s) ==
    IF s = <<>> THEN <<x>>
    ELSE IF LexLess(x, Head(s)) THEN <<x>> \o s
    ELSE <<Head(s)>> \o InsertLex(x, Tail(s))

RECURSIVE InsertByInt(_, _)
\* stable insertion before the first element with a larger key
InsertByInt(x, s) ==
    IF s = <<>> THEN <<x>>
    ELSE IF IntOf(x) < IntOf(Head(s)) THEN <<x>> \o s
    ELSE <<Head(s)>> \o InsertByInt(x, Tail(s))

RECURSIVE SortLexicographic(_)
SortLexicographic(keys) ==
    IF keys = <<>> THEN <<>>
    ELSE InsertLex(keys[Len(keys)], SortLexicographic(SubSeq(keys, 1, Len(keys) - 1)))

RECURSIVE SortNumeric(_)
\* sorted(query_dict.keys(), key=lambda x: int(x[1:]))
SortNumeric(keys) ==
    IF keys = <<>> THEN <<>>
    ELSE InsertByInt(keys[Len(keys)], SortNumeric(SubSeq(keys, 1, Len(keys) - 1)))

\* ------------------------------------------------------------------- state
VARIABLES
    pc,            \* position in main / run_benchmark ("report": no orchestrator)
    args,          \* parsed command line: engine, queries, iterations, warmup
    engine_names,  \* main: the backends to run
    idx,           \* main: position in engine_names of the current backend
    eng,           \* the adapter instance of the current backend
    exc,           \* the step whose exception is propagating, or "none"
    summary,       \* run_benchmark's summary (reporting: the summary under test)
    query_names,   \* run_benchmark: the sorted working set
    iteration,     \* run_benchmark: outer loop variable
    qi,            \* run_benchmark: position of the inner loop in query_names
    rq_calls,      \* run_query invocations of the current run, in call order
    unwound,       \* what run_benchmark held when an exception left it
    summaries,     \* main: summaries of the backends that completed
    runs,          \* one entry per backend whose processing has ended
    log_errors,    \* logger.error calls of main: the backend (or name) concerned
    log_warnings,  \* logger.warning calls of run_benchmark: the missing ids
    rc,            \* main's return code, -1 while running
    report,        \* reporting: the dict to_dict() returned, once exported
    objects,       \* adapter calls: the adapters constructed, in construction order
    handles,       \* adapter calls: what each get_engine call returned (an object)
    data_dir,      \* the data directory: whether it exists, the tables it resolves
    last,          \* adapter calls: the last call made and how it ended
    spark          \* the Spark session of the process (SparkSession.getOrCreate)

\* the command line, read only after parsing; the orchestrator exports nothing
cli == <<args, report>>
\* main's own variables
mainv == <<engine_names, idx, summaries, runs, log_errors, rc>>
\* run_benchmark's locals
locals == <<summary, query_names, iteration, qi>>
\* what the orchestrator and the reporting never write
lab == <<objects, handles, data_dir, last>>
env == <<lab, spark>>

vars == <<pc, cli, mainv, locals, eng, exc, rq_calls, unwound, log_warnings, env>>

\* --queries: absent (None), or given as a list of identifiers
NoQueries == [given |-> FALSE, ids |-> <<>>]
Queries(ids) == [given |-> TRUE, ids |-> ids]

\* "if queries:" is false for None and for an empty list
Truthy(queries) == queries.given /\ queries.ids # <<>>

NoSummary == BenchmarkSummary("", 0)
NothingUnwound == [records |-> 0, calls |-> 0]
NoEngine == [name |-> "", cls |-> "", session |-> FALSE, sess |-> 0,
             data_loaded |-> FALSE, data_paths |-> {},
             connect_calls |-> 0, close_calls |-> 0, opened |-> 0, released |-> 0]

\* SPATIALBENCH_TABLES
SPATIALBENCH_TABLES == <<"trip", "customer", "driver", "vehicle", "building", "zone">>
Tables == {SPATIALBENCH_TABLES[i] : i \in DOMAIN SPATIALBENCH_TABLES}

\* a data directory: tables is the set of table names that resolve, to
\* {table}.parquet or to a {table} sub-directory
Dir(exists, tables) == [exists |-> exists, tables |-> tables]

\* TimedExecution.__init__
TimedExecution == [start_time |-> 0, end_time |-> 0, elapsed |-> 0]

NoSpark == [active |-> 0, created |-> 0]
\* an execution that was not attempted
NoExecution == [raises |-> FALSE, rows |-> 0, message |-> ""]

NoCall == [op |-> "none", h |-> 0, name |-> "", query |-> <<>>,
           raised |-> "none", available |-> <<>>,
           result |-> QueryResult(<<>>, FALSE, 0, NoneMsg, 0),
           attempted |-> FALSE, execution |-> NoExecution,
           timer |-> TimedExecution,
           dir |-> Dir(TRUE, {}), warnings |-> {}, nobj |-> 0]

\* ------------------------------------------------- reporting: free records
LoadTimes == {0, 3}

\* the records tried: successes of every duration, failures without a
\* duration and with any message, and a failure that carries a duration
AnyResult ==
    {QueryResult(q, TRUE, dur, NoneMsg, 1) : q \in QueryIds, dur \in 0..MaxDur}
    \cup {QueryResult(q, FALSE, 0, msg, 1) : q \in QueryIds, msg \in Messages}
    \cup {QueryResult(q, FALSE, MaxDur, "e1", 1) : q \in QueryIds}

NoReport ==
    [exported |-> FALSE, iterations |-> 0,
     summary |-> [total_queries |-> 0, successful_queries |-> 0,
                  failed_queries |-> 0, total_time_seconds |-> 0,
                  query_time_seconds |-> 0, load_time_seconds |-> 0,
                  include_load_time |-> FALSE],
     aggregated_results |-> <<>>, raw_results |-> <<>>]

\* BenchmarkSummary.to_dict()
to_dict(s) ==
    [exported |-> TRUE, iterations |-> s.iterations,
     summary |-> [total_queries |-> s.total_queries,
                  successful_queries |-> s.successful_queries,
                  failed_queries |-> s.failed_queries,
                  total_time_seconds |-> get_total_time(s),
                  query_time_seconds |-> s.total_time,
                  load_time_seconds |-> s.load_time,
                  include_load_time |-> s.include_load_time],
     aggregated_results |-> get_aggregated_results(s),
     raw_results |-> s.results]

Idle ==
    /\ engine_names = <<>>
    /\ idx = 0
    /\ eng = NoEngine
    /\ exc = "none"
    /\ query_names = <<>>
    /\ iteration = 0
    /\ qi = 0
    /\ rq_calls = <<>>
    /\ unwound = NothingUnwound
    /\ summaries = <<>>
    /\ runs = <<>>
    /\ log_errors = <<>>
    /\ log_warnings = <<>>
    /\ rc = -1
    /\ report = NoReport
    /\ objects = <<>>
    /\ handles = <<>>
    /\ last = NoCall
    /\ spark = NoSpark

InitReport ==
    /\ pc = "report"
    /\ args = [engine |-> "", queries |-> NoQueries, iterations |-> 0, warmup |-> FALSE]
    /\ Idle
    /\ \E iters \in 1..MaxIter, lt \in LoadTimes, inc \in BOOLEAN :
          summary = [BenchmarkSummary("test", iters) EXCEPT
                        !.load_time = lt, !.include_load_time = inc]
    /\ data_dir = Dir(TRUE, Tables)

\* summary.add_result(result), any record
AddResult ==
    /\ pc = "report"
    /\ Len(summary.results) < MaxResults
    /\ \E r \in AnyResult : summary' = add_result(summary, r)
    /\ UNCHANGED <<pc, cli, env, mainv, query_names, iteration, qi, eng, exc,
                   rq_calls, unwound, log_warnings>>

\* the summary is finished and exported: report = summary.to_dict()
ToDict ==
    /\ pc = "report"
    /\ report' = to_dict(summary)
    /\ pc' = "exported"
    /\ UNCHANGED <<args, env, mainv, locals, eng, exc, rq_calls, unwound, log_warnings>>

NextReport == AddResult \/ ToDict

SpecReport == InitReport /\ [][NextReport]_vars

\* ------------------------------------------------------ the engine adapter
\* ENGINES[name_lower](): a fresh adapter, no session, no data.  session is
\* "the stored session is not None" (the query module for geopandas and
\* polars); sess identifies the stored Spark session of a sedona adapter;
\* data_paths is _data_paths of geopandas and polars; the four counters are
\* the model's bookkeeping of calls made and sessions opened and released.
NewEngine(name) ==
    [name |-> name, cls |-> EngineClass(name), session |-> FALSE, sess |-> 0,
     data_loaded |-> FALSE, data_paths |-> {},
     connect_calls |-> 0, close_calls |-> 0, opened |-> 0, released |-> 0]

\* The Spark session of the process.  SedonaSparkEngine.connect ends its
\* builder chain with getOrCreate(): it creates a session only when the
\* process has no active one, and returns the active one otherwise.
\* the session getOrCreate() returns, and the process state after it
getOrCreate(sp) ==
    IF sp.active # 0 THEN [session |-> sp.active, spark |-> sp]
    ELSE [session |-> sp.created + 1,
          spark |-> [active |-> sp.created + 1, created |-> sp.created + 1]]

\* How a connect() call can end.  "raise_early": before any session exists
\* (ImportError, missing configuration, session creation failed).
\* "raise_late": after the adapter stored the new session (duckdb: INSTALL /
\* LOAD spatial or SET fails; databricks: USE CATALOG fails).  geopandas and
\* polars return at once when their query module is already loaded.
ConnectOutcomes(e) ==
    IF e.name \in {"geopandas", "polars"}
    THEN IF e.session THEN {"ok"} ELSE {"ok", "raise_early"}
    ELSE IF e.name \in {"duckdb", "databricks"}
         THEN {"ok", "raise_early", "raise_late"}
         ELSE {"ok", "raise_early"}

Raised(out) == out # "ok"

\* the adapter after connect() ended as out: a new session replaces the
\* stored one (the module-loading adapters keep the module they have, and a
\* sedona adapter stores the session getOrCreate() returns, opened by this
\* call or not)
connect(e, out, sp) ==
    LET stores == out \in {"ok", "raise_late"}
        got == getOrCreate(sp)
        fresh == /\ stores
                 /\ ~(e.name \in {"geopandas", "polars"} /\ e.session)
                 /\ ~(e.name = "sedona" /\ sp.active # 0)
    IN  [e EXCEPT !.connect_calls = @ + 1,
                  !.session = IF stores THEN TRUE ELSE @,
                  !.sess = IF stores /\ e.name = "sedona" THEN got.session ELSE @,
                  !.opened = IF fresh THEN @ + 1 ELSE @]

\* the Spark session of the process after that connect()
spark_after_connect(e, out, sp) ==
    IF e.name = "sedona" /\ out = "ok" THEN getOrCreate(sp).spark ELSE sp

\* the adapter after load_data ended as out
load_data(e, out) ==
    [e EXCEPT !.data_loaded = IF out = "ok" THEN TRUE ELSE @]

close_Unguarded(e) ==
    [e EXCEPT !.close_calls = @ + 1,
              !.released = @ + 1,
              !.session = FALSE,
              !.sess = 0,
              !.data_loaded = FALSE,
              !.data_paths = {}]

\* close(): releases the stored session, if any, and forgets it
close(e) ==
    [e EXCEPT !.close_calls = @ + 1,
              !.released = IF e.session THEN @ + 1 ELSE @,
              !.session = FALSE,
              !.sess = 0,
              !.data_loaded = FALSE,
              !.data_paths = {}]

\* the Spark session of the process after that close(): stop() ends the
\* session the adapter stored, the active one or one already stopped
spark_after_close(e, sp) ==
    IF e.name = "sedona" /\ e.session /\ e.sess = sp.active
    THEN [sp EXCEPT !.active = 0]
    ELSE sp

\* ------------------------------------------------------------ orchestrator
\* elapsed time the timer reports for a successful query; the orchestrator
\* only stores it
Elapsed == {1}

\* what run_query can return: a success with an elapsed time, or a failure
\* (duration 0, an error message)
RunQueryReturns(q) ==
    {QueryResult(q, TRUE, d, NoneMsg, 1) : d \in Elapsed}
    \cup {QueryResult(q, FALSE, 0, "e1", 1)}

\* identifiers tried in --queries (q13 is in no query set)
RequestIds == {<<1>>, <<2>>, <<1, 0>>, <<1, 3>>}

RECURSIVE SeqsUpTo(_, _)
SeqsUpTo(S, n) ==
    IF n = 0 THEN {<<>>}
    ELSE LET shorter == SeqsUpTo(S, n - 1)
         IN  shorter \cup {Append(t, x) : t \in shorter, x \in S}

Requests == SeqsUpTo(RequestIds, MaxReq) \ {<<>>}

\* The command lines explored.  A run of every backend ("all") and a run of
\* the full query set are explored with one iteration.
InitMain ==
    /\ pc = "main"
    /\ \E e \in EngineArgs, n \in 0..MaxIter, w \in BOOLEAN,
          q \in {Queries(ids) : ids \in Requests} \cup {NoQueries} :
          /\ ~q.given => (n = 1 /\ e = "geopandas" /\ ~w)
          /\ lower(e) = "all" => (n = 1 /\ q = Queries(<<<<2>>>>))
          /\ args = [engine |-> e, queries |-> q, iterations |-> n, warmup |-> w]
    /\ summary = NoSummary
    /\ data_dir = Dir(TRUE, Tables)
    /\ Idle

\* main: engine_names = list_engines() for "all", else [args.engine.lower()]
DetermineEngines ==
    /\ pc = "main"
    /\ engine_names' = IF lower(args.engine) = "all" THEN list_engines
                       ELSE <<lower(args.engine)>>
    /\ idx' = 1
    /\ pc' = "get_engine"
    /\ UNCHANGED <<cli, env, summaries, runs, log_errors, rc, locals, eng, exc,
                   rq_calls, unwound, log_warnings>>

\* main: engine = get_engine(engine_name); ValueError: log it and return 1
GetEngine ==
    /\ pc = "get_engine"
    /\ idx <= Len(engine_names)
    /\ IF engine_names[idx] \in RegistryKeys
       THEN /\ eng' = NewEngine(engine_names[idx])
            /\ pc' = "enter"
            /\ UNCHANGED <<log_errors, rc>>
       ELSE /\ log_errors' = Append(log_errors, engine_names[idx])
            /\ rc' = 1
            /\ pc' = "done"
            /\ UNCHANGED eng
    /\ UNCHANGED <<cli, env, engine_names, idx, summaries, runs, locals, exc,
                   rq_calls, unwound, log_warnings>>

\* the bookkeeping of the model when main moves on to the next backend
EndOfBackend(e, aborted) ==
    /\ runs' = Append(runs, [engine |-> e.name,
                             connect_calls |-> e.connect_calls,
                             close_calls |-> e.close_calls,
                             opened |-> e.opened,
                             released |-> e.released,
                             session |-> e.session,
                             aborted |-> aborted,
                             step |-> IF aborted THEN exc ELSE "none",
                             records |-> IF aborted THEN unwound.records
                                         ELSE Len(summary.results),
                             calls |-> IF aborted THEN unwound.calls
                                       ELSE Len(rq_calls)])
    /\ idx' = idx + 1
    /\ pc' = "get_engine"

\* main: "with engine:" calls __enter__, which calls connect(); when it
\* raises, the with statement never calls __exit__
Enter ==
    /\ pc = "enter"
    /\ \E out \in ConnectOutcomes(eng) :
          /\ eng' = connect(eng, out, spark)
          /\ spark' = spark_after_connect(eng, out, spark)
          /\ IF Raised(out) THEN /\ exc' = "enter" /\ pc' = "except"
                            ELSE /\ exc' = "none" /\ pc' = "rb_connect"
    /\ rq_calls' = <<>>
    /\ unwound' = NothingUnwound
    /\ UNCHANGED <<cli, lab, mainv, locals, log_warnings>>

\* an exception leaves run_benchmark at the given step: its locals, the
\* summary among them, are dropped with the frame
Unwind(step, nrec, ncalls) ==
    /\ exc' = step
    /\ pc' = "exit"
    /\ unwound' = [records |-> nrec, calls |-> ncalls]
    /\ summary' = NoSummary
    /\ query_names' = <<>>
    /\ iteration' = 0
    /\ qi' = 0
    /\ rq_calls' = <<>>

\* run_benchmark: summary = BenchmarkSummary(...); engine.connect();
\* summary.engine_version = engine.get_version()
RbConnect ==
    /\ pc = "rb_connect"
    /\ \E out \in ConnectOutcomes(eng) :
          /\ eng' = connect(eng, out, spark)
          /\ spark' = spark_after_connect(eng, out, spark)
          /\ IF Raised(out)
             THEN Unwind("connect", 0, 0)
             ELSE /\ summary' = BenchmarkSummary(eng.name, args.iterations)
                  /\ pc' = "rb_load"
                  /\ UNCHANGED <<exc, query_names, iteration, qi, rq_calls, unwound>>
    /\ UNCHANGED <<cli, lab, mainv, log_warnings>>

\* run_benchmark: engine.load_data(data_dir, scale_factor)
RbLoadData ==
    /\ pc = "rb_load"
    /\ \E out \in {"ok", "raise"} :
          /\ eng' = load_data(eng, out)
          /\ IF Raised(out)
             THEN Unwind("load_data", 0, 0)
             ELSE /\ pc' = "rb_warmup"
                  /\ UNCHANGED <<exc, locals, rq_calls, unwound>>
    /\ UNCHANGED <<cli, env, mainv, log_warnings>>

\* How warmup() can end.  DuckDBEngine and SedonaSparkEngine catch the
\* failure of their warmup query and log a warning, the other registered
\* adapters inherit the no-op of the base class: none of them raises.  An
\* override in another implementation of the contract can raise.
WarmupOutcomes(e) ==
    IF e.cls = "BenchmarkEngine" THEN {"ok", "raise"} ELSE {"ok"}

\* run_benchmark: if warmup: engine.warmup()   (no handler around the call)
RbWarmup ==
    /\ pc = "rb_warmup"
    /\ \E out \in (IF args.warmup THEN WarmupOutcomes(eng) ELSE {"ok"}) :
          IF Raised(out)
          THEN Unwind("warmup", 0, 0)
          ELSE /\ pc' = "rb_resolve"
               /\ UNCHANGED <<exc, locals, rq_calls, unwound>>
    /\ UNCHANGED <<cli, env, mainv, eng, log_warnings>>

\* run_benchmark: all_queries
all_queries(e) ==
    IF uses_sql(e.name) THEN get_queries(dialect(e.name)) ELSE FunctionQueries

query_dict_Unfiltered(e, queries) ==
    IF Truthy(queries) THEN queries.ids ELSE all_queries(e)

\* run_benchmark: the keys of query_dict, in dict order
query_dict(e, queries) ==
    IF Truthy(queries)
    THEN DictKeys(queries.ids, Range(all_queries(e)), {})
    ELSE all_queries(e)

\* run_benchmark: missing = set(queries) - set(query_dict.keys())
missing(e, queries) ==
    IF Truthy(queries) THEN Range(queries.ids) \ Range(query_dict(e, queries))
    ELSE {}

\* run_benchmark: resolve and sort the working set, warn about missing ids
RbResolve ==
    /\ pc = "rb_resolve"
    /\ IF uses_sql(eng.name) /\ get_queries_raises(dialect(eng.name))
       THEN /\ Unwind("get_queries", 0, 0)
            /\ UNCHANGED log_warnings
       ELSE /\ query_names' = SortNumeric(query_dict(eng, args.queries))
            /\ log_warnings' = IF missing(eng, args.queries) # {}
                               THEN Append(log_warnings, missing(eng, args.queries))
                               ELSE log_warnings
            /\ iteration' = 1
            /\ qi' = 1
            /\ pc' = "rb_loop"
            /\ UNCHANGED <<exc, summary, rq_calls, unwound>>
    /\ UNCHANGED <<cli, env, mainv, eng>>

LoopDone == iteration > args.iterations \/ query_names = <<>>

\* the loop variables after one inner-loop step
Advance ==
    IF qi < Len(query_names)
    THEN /\ qi' = qi + 1 /\ iteration' = iteration
    ELSE /\ qi' = 1 /\ iteration' = iteration + 1

StampAndAdd_SkipFailed(s, r, it) ==
    IF r.success THEN add_result(s, [r EXCEPT !.iteration = it]) ELSE s

\* run_benchmark: result.iteration = iteration; summary.add_result(result)
StampAndAdd(s, r, it) == add_result(s, [r EXCEPT !.iteration = it])

\* run_benchmark, one step of the query loop: run_query, stamp, add_result,
\* print the progress line.  run_query returns a record whatever happens;
\* the print writes to stdout and can raise, and nothing in the loop catches it.
RbRunQuery ==
    /\ pc = "rb_loop"
    /\ ~LoopDone
    /\ LET q == query_names[qi]
           call == [query_name |-> q, iteration |-> iteration]
       IN  \E r \in RunQueryReturns(q) :
               \/ /\ summary' = StampAndAdd(summary, r, iteration)
                  /\ rq_calls' = Append(rq_calls, call)
                  /\ Advance
                  /\ UNCHANGED <<exc, pc, query_names, unwound>>
               \/ Unwind("print", Len(summary.results) + 1, Len(rq_calls) + 1)
    /\ UNCHANGED <<cli, env, mainv, eng, log_warnings>>

\* run_benchmark returns; main: summaries.append(summary)
RbReturn ==
    /\ pc = "rb_loop"
    /\ LoopDone
    /\ summaries' = Append(summaries, summary)
    /\ pc' = "exit"
    /\ UNCHANGED <<cli, env, engine_names, idx, runs, log_errors, rc, locals, eng,
                   exc, rq_calls, unwound, log_warnings>>

\* the with block is left, normally or by an exception: __exit__ calls
\* close(); an exception goes on to main's handler
Exit ==
    /\ pc = "exit"
    /\ eng' = close(eng)
    /\ spark' = spark_after_close(eng, spark)
    /\ IF exc # "none"
       THEN /\ pc' = "except"
            /\ UNCHANGED <<runs, idx>>
       ELSE EndOfBackend(close(eng), FALSE)
    /\ UNCHANGED <<cli, lab, engine_names, summaries, log_errors, rc, locals, exc,
                   rq_calls, unwound, log_warnings>>

Except_Return ==
    /\ pc = "except"
    /\ log_errors' = Append(log_errors, engine_names[idx])
    /\ runs' = Append(runs, [engine |-> eng.name,
                             connect_calls |-> eng.connect_calls,
                             close_calls |-> eng.close_calls,
                             opened |-> eng.opened,
                             released |-> eng.released,
                             session |-> eng.session,
                             aborted |-> TRUE,
                             step |-> exc,
                             records |-> unwound.records,
                             calls |-> unwound.calls])
    /\ rc' = 1
    /\ pc' = "done"
    /\ exc' = "none"
    /\ UNCHANGED <<cli, env, engine_names, idx, summaries, locals, eng, rq_calls,
                   unwound, log_warnings>>

\* main: except Exception: logger.error(...); continue
Except ==
    /\ pc = "except"
    /\ log_errors' = Append(log_errors, engine_names[idx])
    /\ EndOfBackend(eng, TRUE)
    /\ exc' = "none"
    /\ UNCHANGED <<cli, env, engine_names, summaries, rc, locals, eng, rq_calls,
                   unwound, log_warnings>>

\* main, after the loop: no summary: log and return 1; else report, return 0
Finish ==
    /\ pc = "get_engine"
    /\ idx > Len(engine_names)
    /\ IF summaries = <<>>
       THEN /\ log_errors' = Append(log_errors, "no benchmarks")
            /\ rc' = 1
       ELSE /\ rc' = 0
            /\ UNCHANGED log_errors
    /\ pc' = "done"
    /\ UNCHANGED <<cli, env, engine_names, idx, summaries, runs, locals, eng, exc,
                   rq_calls, unwound, log_warnings>>

Next ==
    \/ DetermineEngines
    \/ GetEngine
    \/ Enter
    \/ RbConnect
    \/ RbLoadData
    \/ RbWarmup
    \/ RbResolve
    \/ RbRunQuery
    \/ RbReturn
    \/ Exit
    \/ Except
    \/ Finish

Spec == InitMain /\ [][Next]_vars

\* ------------------------------------------- run_benchmark on the contract
\* run_benchmark takes any BenchmarkEngine.  Here the body of main's loop,
\* "with engine: summary = run_benchmark(engine, ...)", runs on one
\* implementation of the contract that is not a registered adapter: each of
\* its lifecycle methods returns or raises.
Implementation(name) ==
    [name |-> name, cls |-> "BenchmarkEngine", session |-> FALSE, sess |-> 0,
     data_loaded |-> FALSE, data_paths |-> {},
     connect_calls |-> 0, close_calls |-> 0, opened |-> 0, released |-> 0]

InitContract ==
    /\ pc = "enter"
    /\ \E n \in 1..MaxIter, w \in BOOLEAN,
          ids \in {<<<<2>>>>, <<<<1, 0>>, <<1, 3>>, <<2>>>>} :
          args = [engine |-> "", queries |-> Queries(ids), iterations |-> n,
                  warmup |-> w]
    /\ \E name \in Implementations :
          /\ engine_names = <<name>>
          /\ eng = Implementation(name)
    /\ idx = 1
    /\ exc = "none"
    /\ summary = NoSummary
    /\ query_names = <<>>
    /\ iteration = 0
    /\ qi = 0
    /\ rq_calls = <<>>
    /\ unwound = NothingUnwound
    /\ summaries = <<>>
    /\ runs = <<>>
    /\ log_errors = <<>>
    /\ log_warnings = <<>>
    /\ rc = -1
    /\ report = NoReport
    /\ objects = <<>>
    /\ handles = <<>>
    /\ last = NoCall
    /\ spark = NoSpark
    /\ data_dir = Dir(TRUE, Tables)

NextContract ==
    \/ Enter
    \/ RbConnect
    \/ RbLoadData
    \/ RbWarmup
    \/ RbResolve
    \/ RbRunQuery
    \/ RbReturn
    \/ Exit
    \/ Except
    \/ Finish

SpecContract == InitContract /\ [][NextContract]_vars

\* ------------------------------------------------------------ adapter calls
\* The registry and the adapters called directly, as their unit tests call
\* them: get_engine, then connect, load_data, run_query and close in any
\* order.  pc = "calls": one adapter is obtained and called.  pc = "shared":
\* several adapters are obtained for the same name and called in turn, each
\* connected and closed at most once.
MaxInstances == 2   \* adapters obtained for one name (pc = "shared")
MaxConnects == 2    \* connect() calls on one adapter
MaxCloses == 2      \* close() calls on one adapter

\* the names passed to get_engine
GetEngineArgs == {"duckdb", "DuckDB", "DUCKDB", "sedona", "Sedona", "databricks",
                  "geopandas", "polars", "sedonadb", "invalid"}

get_engine_CaseSensitive(name, objs) ==
    IF name \notin RegistryKeys
    THEN [raised |-> "ValueError", available |-> SortByRank(RegistryKeys),
          objects |-> objs, ref |-> 0]
    ELSE [raised |-> "none", available |-> <<>>,
          objects |-> Append(objs, NewEngine(name)), ref |-> Len(objs) + 1]

\* get_engine(name): objs are the adapters constructed so far; ref is the
\* object returned; available is the list of names in the ValueError message
get_engine(name, objs) ==
    LET name_lower == lower(name) IN
    IF name_lower \notin RegistryKeys
    THEN [raised |-> "ValueError", available |-> SortByRank(RegistryKeys),
          objects |-> objs, ref |-> 0]
    ELSE [raised |-> "none", available |-> <<>>,
          objects |-> Append(objs, NewEngine(name_lower)), ref |-> Len(objs) + 1]

\* the data directories tried: absent; present with no table, one table, all
\* tables but one, every table
DataDirs == {Dir(FALSE, {}), Dir(TRUE, {}), Dir(TRUE, {"trip"}),
             Dir(TRUE, Tables \ {"zone"}), Dir(TRUE, Tables)}

\* How load_data(data_dir, scale_factor) can end on adapter e, and the tables
\* it warns about.  A table that resolves can still fail to materialise
\* (RuntimeError); databricks verifies its remote tables and never looks at
\* the directory.
LoadDataOutcomes(e, dir) ==
    IF e.name \in {"geopandas", "polars"}
    THEN IF ~dir.exists
         THEN {[out |-> "FileNotFoundError", warnings |-> {}]}
         ELSE {[out |-> "ok", warnings |-> Tables \ dir.tables]}
    ELSE IF ~e.session
    THEN {[out |-> "RuntimeError", warnings |-> {}]}
    ELSE IF e.name = "databricks"
    THEN {[out |-> "ok", warnings |-> w] : w \in {{}, {"zone"}, Tables}}
    ELSE IF ~dir.exists
    THEN {[out |-> "FileNotFoundError", warnings |-> {}]}
    ELSE {[out |-> "ok", warnings |-> Tables \ dir.tables]}
         \cup (IF dir.tables # {}
               THEN {[out |-> "RuntimeError", warnings |-> {}]} ELSE {})

\* _data_paths after load_data ended as out (geopandas, polars)
data_paths_after(e, dir, out) ==
    IF e.name \in {"geopandas", "polars"} /\ out = "ok" THEN dir.tables
    ELSE e.data_paths

\* _query_funcs of geopandas and polars: the functions q1..q12 of the loaded
\* query module, none before connect() and after close()
query_funcs(e) == IF e.session THEN Range(FunctionQueries) ELSE {}

\* TimedExecution.__enter__ and __exit__ at the instant now
TimerEnter(t, now) == [t EXCEPT !.start_time = now]
TimerExit(t, now) ==
    [t EXCEPT !.end_time = now, !.elapsed = now - t.start_time]

\* what the underlying execution of a query does: it returns rows, or it
\* raises an exception whose str() is message
Rows == {3}
ExcMessages == {"", "e1"}
Executions(e, sp) ==
    {[raises |-> TRUE, rows |-> 0, message |-> m] : m \in ExcMessages}
    \cup (IF e.name = "sedona" /\ e.sess # sp.active THEN {}
          ELSE {[raises |-> FALSE, rows |-> n, message |-> ""] : n \in Rows})

EarlyReturn_NoGuard(e, q) == ""

\* the message of the record run_query returns without attempting the
\* query, "" when it attempts it
EarlyReturn(e, q) ==
    IF uses_sql(e.name)
    THEN IF ~e.session
         THEN IF e.name = "sedona" THEN "Spark session not established"
              ELSE "Connection not established"
         ELSE ""
    ELSE IF q \notin query_funcs(e) THEN "Query function not found"
    ELSE IF e.data_paths = {} THEN "No data paths configured. Call load_data() first."
    ELSE ""

FailureRecord_NoMessage(q, dur, msg) ==
    QueryResult(q, FALSE, dur, NoneMsg, 1)

\* QueryResult(query_name=..., success=False, duration_seconds=...,
\*             error_message=...)
FailureRecord(q, dur, msg) ==
    QueryResult(q, FALSE, dur, msg, 1)

\* QueryResult(query_name=..., success=True, duration_seconds=...,
\*             row_count=...)
SuccessRecord(q, dur, rows) ==
    [QueryResult(q, TRUE, dur, NoneMsg, 1) EXCEPT !.row_count = rows]

\* run_query(query_name, query_sql) on adapter e, when the execution does x,
\* the clock reads t0 on entering the timer and t1 on leaving it.  The
\* failure record is built inside the with block, before __exit__ runs.
run_query(e, q, x, t0, t1) ==
    LET entered == TimerEnter(TimedExecution, t0)
        left == TimerExit(entered, t1)
    IN  IF EarlyReturn(e, q) # ""
        THEN [result |-> FailureRecord(q, 0, EarlyReturn(e, q)),
              attempted |-> FALSE, timer |-> TimedExecution]
        ELSE IF x.raises
        THEN [result |-> FailureRecord(q, entered.elapsed, x.message),
              attempted |-> TRUE, timer |-> left]
        ELSE [result |-> SuccessRecord(q, left.elapsed, x.rows),
              attempted |-> TRUE, timer |-> left]

\* the identifiers and the clock readings tried (q13 is no query)
CallQueries == {<<1>>, <<1, 3>>}
Instants == {3}

Obj(h) == objects[handles[h]]

orchestration == <<pc, cli, mainv, locals, eng, exc, rq_calls, unwound, log_warnings>>

Calling == pc \in {"calls", "shared"}

InitEngine ==
    /\ pc = "calls"
    /\ args = [engine |-> "", queries |-> NoQueries, iterations |-> 0, warmup |-> FALSE]
    /\ summary = NoSummary
    /\ data_dir = Dir(TRUE, Tables)
    /\ Idle

\* engine = get_engine(name)
CallGetEngine ==
    /\ Calling
    /\ Len(handles) < (IF pc = "shared" THEN MaxInstances ELSE 1)
    /\ \E name \in GetEngineArgs :
          LET r == get_engine(name, objects) IN
          /\ \A i \in DOMAIN r.objects : r.objects[i].name = r.objects[1].name
          /\ objects' = r.objects
          /\ handles' = IF r.raised = "none" THEN Append(handles, r.ref) ELSE handles
          /\ last' = [NoCall EXCEPT !.op = "get_engine", !.name = name,
                                    !.raised = r.raised, !.available = r.available,
                                    !.h = IF r.raised = "none" THEN Len(handles) + 1 ELSE 0,
                                    !.nobj = Len(objects)]
    /\ UNCHANGED <<orchestration, data_dir, spark>>

\* engine.connect()
CallConnect ==
    /\ Calling
    /\ \E h \in DOMAIN handles :
          /\ Obj(h).connect_calls < (IF pc = "shared" THEN 1 ELSE MaxConnects)
          /\ \E out \in ConnectOutcomes(Obj(h)) :
                /\ objects' = [objects EXCEPT ![handles[h]] = connect(@, out, spark)]
                /\ spark' = spark_after_connect(Obj(h), out, spark)
                /\ last' = [NoCall EXCEPT !.op = "connect", !.h = h,
                                          !.raised = IF Raised(out) THEN out ELSE "none",
                                          !.nobj = Len(objects)]
    /\ UNCHANGED <<orchestration, handles, data_dir>>

\* engine.load_data(data_dir, scale_factor)
CallLoadData ==
    /\ Calling
    /\ \E h \in DOMAIN handles,
          dir \in (IF pc = "shared" THEN {data_dir} ELSE DataDirs) :
          \E o \in LoadDataOutcomes(Obj(h), dir) :
             /\ objects' = [objects EXCEPT ![handles[h]] =
                               [load_data(@, o.out) EXCEPT
                                   !.data_paths = data_paths_after(Obj(h), dir, o.out)]]
             /\ last' = [NoCall EXCEPT !.op = "load_data", !.h = h, !.dir = dir,
                                       !.raised = IF Raised(o.out) THEN o.out ELSE "none",
                                       !.warnings = o.warnings,
                                       !.nobj = Len(objects)]
    /\ UNCHANGED <<orchestration, handles, data_dir, spark>>

\* result = engine.run_query(query_name, query_sql)
CallRunQuery ==
    /\ pc = "calls"
    /\ \E h \in DOMAIN handles, q \in CallQueries, t0 \in Instants, d \in 1..MaxDur :
          \E x \in Executions(Obj(h), spark) :
             LET r == run_query(Obj(h), q, x, t0, t0 + d) IN
             last' = [NoCall EXCEPT !.op = "run_query", !.h = h, !.query = q,
                                    !.result = r.result, !.attempted = r.attempted,
                                    !.execution = IF r.attempted THEN x
                                                  ELSE NoExecution,
                                    !.timer = r.timer,
                                    !.nobj = Len(objects)]
    /\ UNCHANGED <<orchestration, objects, handles, data_dir, spark>>

\* engine.close()
CallClose ==
    /\ Calling
    /\ \E h \in DOMAIN handles :
          /\ Obj(h).close_calls < (IF pc = "shared" THEN 1 ELSE MaxCloses)
          /\ objects' = [objects EXCEPT ![handles[h]] = close(@)]
          /\ spark' = spark_after_close(Obj(h), spark)
          /\ last' = [NoCall EXCEPT !.op = "close", !.h = h,
                                    !.nobj = Len(objects)]
    /\ UNCHANGED <<orchestration, handles, data_dir>>

NextEngine ==
    \/ CallGetEngine
    \/ CallConnect
    \/ CallLoadData
    \/ CallRunQuery
    \/ CallClose

SpecEngine == InitEngine /\ [][NextEngine]_vars

\* several adapters of one name
InitShared ==
    /\ pc = "shared"
    /\ args = [engine |-> "", queries |-> NoQueries, iterations |-> 0, warmup |-> FALSE]
    /\ summary = NoSummary
    /\ data_dir = Dir(TRUE, Tables)
    /\ Idle

NextShared ==
    \/ CallGetEngine
    \/ CallConnect
    \/ CallLoadData
    \/ CallClose

SpecShared == InitShared /\ [][NextShared]_vars

\* ================================================================== claims
\* the working query set of a run, as a set: the requested identifiers that
\* the backend's full query set has, or the full set when none is requested
FullSet == {DigitsOf(i) : i \in 1..NumQueries}
WorkingSet == IF Truthy(args.queries) THEN Range(args.queries.ids) \cap FullSet
              ELSE FullSet

\* C1: for one backend run driven by main, close() is executed exactly once
\* on every exit path (normal completion, connect() raising, load_data()
\* raising, warmup() raising, an exception during the query loop).
C1_CloseExactlyOnce ==
    \A i \in DOMAIN runs : runs[i].close_calls = 1

\* C2: when a lifecycle step of backend i raises, the error is logged,
\* backend i contributes no summary, every later backend of the list is
\* still instantiated and run, and the summaries collected earlier are kept.
C2_FailureIsolated ==
    /\ [](\A i \in DOMAIN runs : runs[i].aborted =>
             /\ \E k \in DOMAIN log_errors : log_errors[k] = engine_names[i]
             /\ \A k \in DOMAIN summaries : summaries[k].engine # engine_names[i]
             /\ pc = "done" =>
                   \A j \in (i + 1)..Len(engine_names) :
                       j \in DOMAIN runs /\ runs[j].connect_calls >= 1)
    /\ [][/\ Len(summaries') >= Len(summaries)
          /\ \A k \in DOMAIN summaries : summaries'[k] = summaries[k]]_vars

\* C2 witness: main is done; a backend completed, the next one was aborted
\* and a later one completed: two summaries are reported.
C2_Witness ==
    /\ pc = "done"
    /\ \E i, j, k \in DOMAIN runs :
          /\ i < j /\ j < k
          /\ ~runs[i].aborted /\ runs[j].aborted /\ ~runs[k].aborted
          /\ \E a, b \in DOMAIN summaries :
                /\ a < b
                /\ summaries[a].engine = engine_names[i]
                /\ summaries[b].engine = engine_names[k]

\* exactly one element of a list of records or calls per (query, iteration)
\* pair of the working set, and no other element
OnePerPair(list) ==
    /\ Len(list) = Cardinality(WorkingSet) * args.iterations
    /\ \A q \in WorkingSet, k \in 1..args.iterations :
          Cardinality({i \in DOMAIN list :
                          list[i].query_name = q /\ list[i].iteration = k}) = 1

\* C3: in a run whose connect and load_data succeed, run_query is invoked
\* exactly once per (query, iteration) pair however many invocations return
\* success=false, and the returned summary holds exactly |Q|*N records, one
\* per pair.
C3_OneRecordPerPair ==
    /\ \A k \in DOMAIN summaries : OnePerPair(summaries[k].results)
    /\ (pc = "exit" /\ exc = "none") => OnePerPair(rq_calls)

\* C3 witness: a returned summary of two queries and two iterations whose
\* first record is a failure and whose last record is a success.
C3_Witness ==
    /\ pc = "exit" /\ exc = "none"
    /\ Cardinality(WorkingSet) = 2 /\ args.iterations = 2
    /\ Len(summary.results) = 4
    /\ ~summary.results[1].success
    /\ summary.results[4].success
    /\ summaries[Len(summaries)] = summary

\* records in iteration-major order, ascending integer suffix within one
\* iteration, iteration fields within 1..N
IterationMajor(results) ==
    /\ \A i \in DOMAIN results : results[i].iteration \in 1..args.iterations
    /\ \A i, j \in DOMAIN results : i < j =>
          \/ results[i].iteration < results[j].iteration
          \/ /\ results[i].iteration = results[j].iteration
             /\ IntOf(results[i].query_name) < IntOf(results[j].query_name)

\* C4: the records of a summary are in iteration-major order, within one
\* iteration the identifiers ascend by integer suffix (q2 before q10), and
\* each record's iteration field is the index of the iteration in which it
\* was executed.
C4_IterationMajorOrder ==
    /\ \A k \in DOMAIN summaries : IterationMajor(summaries[k].results)
    /\ IterationMajor(summary.results)
    /\ pc = "rb_loop" =>
          /\ Len(rq_calls) = Len(summary.results)
          /\ \A i \in DOMAIN summary.results :
                /\ summary.results[i].iteration = rq_calls[i].iteration
                /\ summary.results[i].query_name = rq_calls[i].query_name

\* C4 witness: q10 was requested before q2; both ran in two iterations.
C4_Witness ==
    /\ pc = "exit" /\ exc = "none"
    /\ args.queries.ids = <<<<1, 0>>, <<2>>>>
    /\ Len(summary.results) = 4
    /\ summary.results[1].query_name = <<2>>
    /\ summary.results[2].query_name = <<1, 0>>
    /\ summary.results[3].iteration = 2

\* ------------------------------------------- claims about the run summary
\* positions of the successful records of a list
SuccessIdx(results) == {i \in DOMAIN results : results[i].success}

RECURSIVE SumDurations(_, _)
\* the sum of duration_seconds over the positions I of a list
SumDurations(results, I) ==
    IF I = {} THEN 0
    ELSE LET i == CHOOSE x \in I : TRUE
         IN  results[i].duration_seconds + SumDurations(results, I \ {i})

\* C5: after any sequence of add_result calls on a fresh summary,
\* total_queries = successful_queries + failed_queries, total_queries is the
\* length of the results list and successful_queries is the number of
\* appended records with success=true.
C5_CountersConsistent ==
    /\ summary.total_queries = summary.successful_queries + summary.failed_queries
    /\ summary.total_queries = Len(summary.results)
    /\ summary.successful_queries = Cardinality(SuccessIdx(summary.results))

\* C5 witness: three records were added, successes and a failure among them.
C5_Witness ==
    /\ pc = "report"
    /\ Len(summary.results) = 3
    /\ Cardinality(SuccessIdx(summary.results)) = 2

\* C6: after any sequence of add_result calls on a fresh summary, total_time
\* is the sum of duration_seconds over exactly the records with
\* success=true; the duration of a failed record is never added.
C6_TotalTimeOfSuccesses ==
    summary.total_time = SumDurations(summary.results, SuccessIdx(summary.results))

\* C6 witness: a failed record that carries a duration was added between two
\* successful records that carry one.
C6_Witness ==
    /\ pc = "report"
    /\ Len(summary.results) = 3
    /\ summary.results[1].success /\ summary.results[1].duration_seconds > 0
    /\ ~summary.results[2].success /\ summary.results[2].duration_seconds > 0
    /\ summary.results[3].success /\ summary.results[3].duration_seconds > 0

\* C7: get_total_time() is the sum of the successful elapsed times when
\* include_load_time is false, and that sum plus load_time, once, when it is
\* true, whatever the iteration count and the number of records.
C7_GetTotalTime ==
    report.exported =>
        report.summary.total_time_seconds =
            SumDurations(report.raw_results, SuccessIdx(report.raw_results))
            + (IF report.summary.include_load_time
               THEN report.summary.load_time_seconds ELSE 0)

\* C7 witness: a summary of two iterations with a load time, included in the
\* total, was exported with a successful and a failed record.
C7_Witness ==
    /\ report.exported
    /\ report.summary.include_load_time
    /\ report.summary.load_time_seconds > 0
    /\ report.iterations = 2
    /\ report.summary.successful_queries >= 1
    /\ report.summary.failed_queries >= 1
    /\ report.summary.query_time_seconds > 0

\* ---------------------------------------------- claims about aggregation
\* positions of the records of query q, and of its successful records
GroupIdx(results, q) == {i \in DOMAIN results : results[i].query_name = q}
GroupSuccIdx(results, q) == GroupIdx(results, q) \cap SuccessIdx(results)

\* the entries of an aggregation that belong to query q
EntriesOf(agg, q) == {k \in DOMAIN agg : agg[k].query_name = q}

\* C8: for every query with at least one successful record,
\* min <= median <= max and min <= mean <= max.
C8_StatsOrdered ==
    report.exported =>
        \A k \in DOMAIN report.aggregated_results :
            LET e == report.aggregated_results[k] IN
            GroupSuccIdx(report.raw_results, e.query_name) # {} =>
                /\ FracLeq(e.min, e.median) /\ FracLeq(e.median, e.max)
                /\ FracLeq(e.min, e.mean) /\ FracLeq(e.mean, e.max)

\* C8 witness: a query with two successful records of different durations
\* (an even count: the median is their mean) and one failed record.
C8_Witness ==
    /\ report.exported
    /\ \E k \in DOMAIN report.aggregated_results :
          LET e == report.aggregated_results[k] IN
          /\ e.iterations = 3
          /\ e.successful_iterations = 2
          /\ e.min # e.max

RECURSIVE NonEmptyMessages(_, _)
\* the non-empty error messages of the records of query q, in record order
NonEmptyMessages(results, q) ==
    IF results = <<>> THEN <<>>
    ELSE LET r == Head(results)
             rest == NonEmptyMessages(Tail(results), q)
         IN  IF r.query_name = q /\ r.error_message # NoneMsg /\ r.error_message # ""
             THEN <<r.error_message>> \o rest
             ELSE rest

KthSmallest(results, I, k) ==
    CHOOSE v \in {results[i].duration_seconds : i \in I} :
        /\ Cardinality({i \in I : results[i].duration_seconds < v}) < k
        /\ Cardinality({i \in I : results[i].duration_seconds <= v}) >= k

\* the median of the durations at the positions I, as a fraction
MedianOf(results, I) ==
    LET n == Cardinality(I) IN
    IF n % 2 = 1 THEN Frac(KthSmallest(results, I, (n + 1) \div 2), 1)
    ELSE Frac(KthSmallest(results, I, n \div 2)
              + KthSmallest(results, I, (n \div 2) + 1), 2)

\* C10: for a query with a attempts of which s >= 1 succeeded, success_rate
\* is s/a and min, max, mean and median are those of the s successful
\* elapsed times; the elapsed time of a failed attempt enters no statistic.
C10_StatsOverSuccesses ==
    report.exported =>
        \A k \in DOMAIN report.aggregated_results :
            LET e == report.aggregated_results[k]
                G == GroupIdx(report.raw_results, e.query_name)
                S == GroupSuccIdx(report.raw_results, e.query_name)
                d(i) == report.raw_results[i].duration_seconds
            IN  S # {} =>
                /\ FracEq(e.success_rate, Frac(Cardinality(S), Cardinality(G)))
                /\ \E i \in S : FracEq(e.min, Frac(d(i), 1))
                /\ \A i \in S : FracLeq(e.min, Frac(d(i), 1))
                /\ \E i \in S : FracEq(e.max, Frac(d(i), 1))
                /\ \A i \in S : FracLeq(Frac(d(i), 1), e.max)
                /\ FracEq(e.mean, Frac(SumDurations(report.raw_results, S),
                                       Cardinality(S)))
                /\ FracEq(e.median, MedianOf(report.raw_results, S))

\* C10 witness: three attempts of a query, two succeeded, and the failed
\* attempt carries a duration longer than both successes.
C10_Witness ==
    /\ report.exported
    /\ \E q \in QueryIds :
          LET G == GroupIdx(report.raw_results, q)
              S == GroupSuccIdx(report.raw_results, q)
          IN  /\ Cardinality(G) = 3
              /\ Cardinality(S) = 2
              /\ \E f \in G \ S : \A i \in S :
                    report.raw_results[f].duration_seconds >
                        report.raw_results[i].duration_seconds

\* C11: for every query with exactly one successful record, whatever the
\* number of failed records of its group, std_dev is 0 and min, max, mean and
\* median all equal that record's elapsed time.
C11_SingleSuccess ==
    report.exported =>
        \A k \in DOMAIN report.aggregated_results :
            LET e == report.aggregated_results[k]
                S == GroupSuccIdx(report.raw_results, e.query_name)
            IN  Cardinality(S) = 1 =>
                \A i \in S :
                    LET d == Frac(report.raw_results[i].duration_seconds, 1) IN
                    /\ e.std_dev = Frac(0, 1)
                    /\ e.min = d /\ e.max = d
                    /\ FracEq(e.mean, d) /\ FracEq(e.median, d)

\* C11 witness: a query with one successful record of a positive duration
\* and two failed records, one of which carries a duration.
C11_Witness ==
    /\ report.exported
    /\ \E q \in QueryIds :
          LET G == GroupIdx(report.raw_results, q)
              S == GroupSuccIdx(report.raw_results, q)
          IN  /\ Cardinality(G) = 3
              /\ Cardinality(S) = 1
              /\ \A i \in S : report.raw_results[i].duration_seconds > 0
              /\ \E f \in G \ S : report.raw_results[f].duration_seconds > 0

\* ------------------------------------------------ claims about the registry
\* a list of names in strictly ascending string order
Ascending(names) ==
    \A i, j \in DOMAIN names : i < j => StrRank(names[i]) < StrRank(names[j])

\* C12: get_engine(name) looks the name up lower-cased.  When the lower-cased
\* name is a registry key it returns a new instance of the class registered
\* under that key, whatever the letter case of the argument; when it is not,
\* it raises an unknown-engine error whose message lists every registered
\* name in sorted order, and it constructs no adapter.
C12_GetEngine ==
    last.op = "get_engine" =>
        IF lower(last.name) \in RegistryKeys
        THEN /\ last.raised = "none"
             /\ Len(objects) = last.nobj + 1
             /\ handles[last.h] = Len(objects)
             /\ objects[Len(objects)].cls = EngineClass(lower(last.name))
             /\ last.name \in {"duckdb", "DuckDB", "DUCKDB"} =>
                    objects[Len(objects)].cls = "DuckDBEngine"
             /\ last.name \in {"sedona", "Sedona"} =>
                    objects[Len(objects)].cls = "SedonaSparkEngine"
        ELSE /\ last.raised = "ValueError"
             /\ Range(last.available) = RegistryKeys
             /\ Ascending(last.available)
             /\ Len(objects) = last.nobj
             /\ last.h = 0

\* C12 witness: get_engine("DUCKDB") returned a DuckDBEngine.
C12_Witness ==
    /\ last.op = "get_engine"
    /\ last.name = "DUCKDB"
    /\ last.raised = "none"
    /\ Len(handles) = 1
    /\ Obj(1).cls = "DuckDBEngine"

\* the session state of an adapter: whether it stores a session, whether the
\* stored session is still running, and the data bound to it
SessionState(o, sp) ==
    [session |-> o.session,
     running |-> o.session /\ (o.name = "sedona" => o.sess = sp.active),
     data_loaded |-> o.data_loaded,
     data_paths |-> o.data_paths]

\* C13: every call to get_engine returns a distinct, freshly constructed
\* adapter, and connecting, loading data into or closing one adapter never
\* changes the session state of another adapter obtained for the same name.
C13_DistinctInstances ==
    [][/\ (last'.op = "get_engine" /\ last'.raised = "none") =>
              /\ \A h \in DOMAIN handles : handles[h] # handles'[last'.h]
              /\ objects'[handles'[last'.h]] = NewEngine(lower(last'.name))
       /\ last'.op \in {"connect", "load_data", "close"} =>
              \A h \in DOMAIN handles : h # last'.h =>
                  SessionState(objects'[handles'[h]], spark') =
                      SessionState(objects[handles[h]], spark)]_vars

\* C14: the registry keys are exactly duckdb, sedona, sedonadb, databricks,
\* geopandas and polars; get_engine("sedonadb") returns a SedonaDBEngine and
\* list_engines() includes "sedonadb".
C14_RegistryKeys ==
    /\ RegistryKeys = {"duckdb", "sedona", "sedonadb", "databricks",
                       "geopandas", "polars"}
    /\ \E i \in DOMAIN list_engines : list_engines[i] = "sedonadb"
    /\ (last.op = "get_engine" /\ last.name = "sedonadb") =>
           /\ last.raised = "none"
           /\ objects[Len(objects)].cls = "SedonaDBEngine"

\* ------------------------------------------------ claims about the adapters
\* the adapter the last call was made on
Callee == Obj(last.h)

\* a run_query call that has to fail: the adapter has no session, or the
\* identifier has no dispatch target, or the execution raised
MustFail ==
    \/ (uses_sql(Callee.name) /\ ~Callee.session)
    \/ (~uses_sql(Callee.name) /\ last.query \notin query_funcs(Callee))
    \/ (last.attempted /\ last.execution.raises)

\* C15 as claimed: in every lifecycle state run_query returns a record and
\* never raises; when the execution raises, or the adapter has no session, or
\* the identifier has no dispatch target, the record has success=false and a
\* non-empty error message, and the adapter's session state is unchanged.
C15_RunQueryNonEmptyMessage ==
    [][last'.op = "run_query" =>
          /\ last'.raised = "none"
          /\ objects' = objects /\ spark' = spark
          /\ MustFail' =>
                /\ ~last'.result.success
                /\ last'.result.error_message \notin {NoneMsg, ""}]_vars

\* C15, amended: as claimed, except that the error message of the record is
\* present (not None) and is the text of the exception the execution raised,
\* which is empty when the exception carries no text.
C15_RunQueryCaptures ==
    [][last'.op = "run_query" =>
          /\ last'.raised = "none"
          /\ objects' = objects /\ spark' = spark
          /\ MustFail' =>
                /\ ~last'.result.success
                /\ last'.result.error_message # NoneMsg
                /\ IF last'.attempted
                   THEN last'.result.error_message = last'.execution.message
                   ELSE last'.result.error_message # ""]_vars

\* C15 witness: a connected adapter with data loaded ran a query whose
\* execution raised an exception without text; the record is a failure with
\* an empty message.
C15_Witness ==
    /\ last.op = "run_query"
    /\ Callee.session /\ Callee.data_loaded
    /\ last.attempted /\ last.execution.raises
    /\ last.execution.message = ""
    /\ ~last.result.success
    /\ last.result.error_message = ""

\* C16: run_query measures the elapsed time of the full attempt with the
\* scoped timer, for failed attempts as for successful ones: the
\* duration_seconds of the returned record is the timer's end instant minus
\* its start instant, whether success is true or false.
C16_DurationIsElapsed ==
    (last.op = "run_query" /\ last.attempted) =>
        last.result.duration_seconds = last.timer.end_time - last.timer.start_time

\* C17: every record run_query returns satisfies: success=true implies that
\* the error message is absent, and success=false implies row_count = 0 and
\* that the error message is present.
C17_RecordInvariant ==
    last.op = "run_query" =>
        /\ last.result.success => last.result.error_message = NoneMsg
        /\ ~last.result.success =>
              /\ last.result.row_count = 0
              /\ last.result.error_message # NoneMsg

\* C17 witness: the execution of an attempted query raised; the record
\* carries the exception's text and no rows.
C17_Witness ==
    /\ last.op = "run_query"
    /\ last.attempted /\ last.execution.raises
    /\ ~last.result.success
    /\ last.result.error_message = "e1"
    /\ last.result.row_count = 0

\* C18: close() is idempotent and always safe: on an adapter whose connect
\* never ran or never succeeded, or called again after a close, it raises
\* nothing, leaves the adapter disconnected and releases the underlying
\* session at most once.
C18_CloseIdempotent ==
    /\ [](/\ \A i \in DOMAIN objects : objects[i].released <= objects[i].opened
          /\ last.op = "close" =>
                /\ last.raised = "none"
                /\ ~Callee.session
                /\ ~Callee.data_loaded
                /\ Callee.data_paths = {})
    /\ [][last'.op = "close" =>
             LET before == objects[handles[last'.h]]
                 after == objects'[handles'[last'.h]]
             IN  /\ after.released <= before.released + 1
                 /\ ~before.session =>
                       after = [before EXCEPT !.close_calls = @ + 1,
                                              !.data_loaded = FALSE,
                                              !.data_paths = {}]]_vars

\* C18 witness: an adapter was connected, closed and closed again; it
\* released its session once.
C18_Witness ==
    /\ last.op = "close"
    /\ Callee.connect_calls >= 1
    /\ Callee.opened = 1
    /\ Callee.close_calls = 2
    /\ Callee.released = 1

\* C19: for every adapter, load_data given a directory that does not exist
\* fails with FileNotFoundError (the exception leaves run_benchmark before
\* its query loop, so no query is executed in that run).  An SQL adapter is
\* taken to be connected: without a session its load_data raises
\* RuntimeError before it looks at the directory.
C19_MissingDirNotFound ==
    (/\ last.op = "load_data"
     /\ ~last.dir.exists
     /\ uses_sql(Callee.name) => Callee.session) =>
        last.raised = "FileNotFoundError"

\* C20: load_data on an existing directory only warns, and goes on with the
\* remaining tables, for a table that resolves neither to {table}.parquet
\* nor to a {table} sub-directory, but it fails when every one of the six
\* tables is unresolvable.  (Adapters that read the directory, connected
\* where they need a session.)
C20_AllUnresolvableFails ==
    (/\ last.op = "load_data"
     /\ last.dir.exists
     /\ Callee.name # "databricks"
     /\ uses_sql(Callee.name) => Callee.session) =>
        /\ last.dir.tables = {} => last.raised # "none"
        /\ (last.dir.tables # {} /\ last.raised = "none") =>
               last.warnings = Tables \ last.dir.tables
\* --------------------------------------------- claims about the lifecycle
\* C21: when warmup is requested and the adapter's warmup() raises, the
\* orchestrator logs the failure and the run continues: the query loop still
\* executes every (query, iteration) pair and a summary is returned.
C21_WarmupNeverFatal ==
    /\ ~(exc = "warmup" /\ pc \in {"exit", "except"})
    /\ \A i \in DOMAIN runs : runs[i].step = "warmup" =>
          /\ ~runs[i].aborted
          /\ runs[i].calls = Cardinality(WorkingSet) * args.iterations
          /\ \E k \in DOMAIN summaries : summaries[k].engine = runs[i].engine

\* C22: a configuration error for a backend, an unknown backend name or an
\* unknown dialect, is detected before connect() is invoked on that backend,
\* and it aborts only that backend's run: the remaining backends of the
\* invocation are still processed.
C22_ConfigErrorBeforeConnect ==
    /\ exc = "get_queries" => eng.connect_calls = 0
    /\ \A i \in DOMAIN runs : runs[i].step = "get_queries" =>
          /\ runs[i].connect_calls = 0
          /\ pc = "done" => Len(runs) = Len(engine_names)
    /\ \A k \in DOMAIN log_errors :
          log_errors[k] \notin RegistryKeys \cup Implementations \cup {"no benchmarks"} =>
              \A i \in DOMAIN runs : runs[i].engine # log_errors[k]

\* the backends whose run has ended while their adapter still stores an open
\* session, and whether the adapter of the backend being run stores one
EndedOpen == {i \in DOMAIN runs : runs[i].session}
Running == pc \in {"enter", "rb_connect", "rb_load", "rb_warmup", "rb_resolve",
                   "rb_loop", "exit", "except"}

\* C23: multiple backends are run strictly sequentially: connect() of backend
\* i+1 is not invoked until backend i's run has ended and its session has
\* been closed, so at every moment at most one backend adapter holds an open
\* session.
C23_OneOpenSession ==
    /\ Len(runs) \in {idx - 1, idx}
    /\ (Running /\ eng.connect_calls >= 1) =>
          /\ Len(runs) = idx - 1
          /\ EndedOpen = {}
    /\ Cardinality(EndedOpen) + (IF Running /\ eng.session THEN 1 ELSE 0) <= 1

\* ------------------------------------------- claims about the working set
\* C24: when a subset of query identifiers is requested, the working set is
\* exactly the intersection of the requested identifiers with the backend's
\* full query set (duplicates in the request collapse to one), executed in
\* ascending numeric order whatever the order of the request; every requested
\* identifier absent from the full set is warned about and is never passed
\* to run_query.
C24_SubsetIsIntersection ==
    (Truthy(args.queries) /\ pc = "rb_loop") =>
        LET requested == Range(args.queries.ids)
            absent == requested \ FullSet
        IN  /\ Range(query_names) = requested \cap FullSet
            /\ Len(query_names) = Cardinality(requested \cap FullSet)
            /\ \A i, j \in DOMAIN query_names :
                  i < j => IntOf(query_names[i]) < IntOf(query_names[j])
            /\ IF absent = {} THEN log_warnings = <<>>
               ELSE /\ log_warnings # <<>>
                    /\ log_warnings[Len(log_warnings)] = absent
            /\ \A c \in DOMAIN rq_calls :
                  /\ rq_calls[c].query_name \in requested \cap FullSet
                  /\ rq_calls[c].query_name = query_names[((c - 1) % Len(query_names)) + 1]

\* C24 witness: q13, which no query set has, was requested before q2; the
\* loop has run q2 in both iterations and q13 was warned about.
C24_Witness ==
    /\ pc = "rb_loop"
    /\ args.queries.ids = <<<<1, 3>>, <<2>>>>
    /\ args.iterations = 2
    /\ query_names = <<<<2>>>>
    /\ log_warnings = <<{<<1, 3>>}>>
    /\ Len(rq_calls) = 2

\* C25: in a backend run, connect() is called exactly once, and that call
\* precedes load_data, warmup and every run_query of the run.
C25_ConnectOnce ==
    /\ Running => eng.connect_calls <= 1
    /\ pc \in {"rb_load", "rb_warmup", "rb_resolve", "rb_loop"} =>
          eng.connect_calls = 1
    /\ \A i \in DOMAIN runs : runs[i].connect_calls = 1

\* C26: when a backend's run is aborted by an exception after k >= 0 records
\* have been appended to its summary, those k records are preserved and
\* remain available to the caller for reporting.
C26_PartialResultsKept ==
    \A i \in DOMAIN runs :
        (runs[i].aborted /\ runs[i].records >= 1) =>
            \E k \in DOMAIN summaries :
                /\ summaries[k].engine = runs[i].engine
                /\ Len(summaries[k].results) = runs[i].records

\* ------------------------------------- claims about the aggregated entries
\* the position of the first record of query q in a list of records
FirstIdx(results, q) ==
    CHOOSE i \in GroupIdx(results, q) : \A j \in GroupIdx(results, q) : i <= j

\* C27: get_aggregated_results returns exactly one entry per distinct query
\* identifier present in the records and none for any other identifier, the
\* entries are ordered by first appearance of the identifier in the record
\* list, and each entry's iterations field is the number of records
\* (successful or failed) carrying that identifier.
C27_OneEntryPerQuery ==
    report.exported =>
        LET agg == report.aggregated_results
            raw == report.raw_results
            present == {raw[i].query_name : i \in DOMAIN raw}
        IN  /\ \A q \in present : Cardinality(EntriesOf(agg, q)) = 1
            /\ \A k \in DOMAIN agg : agg[k].query_name \in present
            /\ \A k, l \in DOMAIN agg : k < l =>
                  FirstIdx(raw, agg[k].query_name) < FirstIdx(raw, agg[l].query_name)
            /\ \A k \in DOMAIN agg :
                  agg[k].iterations = Cardinality(GroupIdx(raw, agg[k].query_name))

\* C27 witness: the records are q2, q1, q2, the first of them failed: the
\* entry of q2 comes first and counts two records.
C27_Witness ==
    /\ report.exported
    /\ Len(report.raw_results) = 3
    /\ report.raw_results[1].query_name = <<2>> /\ ~report.raw_results[1].success
    /\ report.raw_results[2].query_name = <<1>>
    /\ report.raw_results[3].query_name = <<2>> /\ report.raw_results[3].success
    /\ Len(report.aggregated_results) = 2
    /\ report.aggregated_results[1].query_name = <<2>>
    /\ report.aggregated_results[1].iterations = 2

\* ------------------------------------------------ claims about the sessions
\* C28: within a backend run driven by main, every underlying connection or
\* session opened by a connect() call has been closed once the run has
\* ended, and an adapter that already holds an open session never opens a
\* second one without first closing the first (no session is overwritten
\* and leaked).
C28_NoSessionLeaked ==
    /\ Running => eng.opened - eng.released <= 1
    /\ \A i \in DOMAIN runs : runs[i].released = runs[i].opened

RECURSIVE SumIterations(_)
\* the sum of the iterations fields of a list of aggregated entries
SumIterations(agg) ==
    IF agg = <<>> THEN 0 ELSE Head(agg).iterations + SumIterations(Tail(agg))

RECURSIVE SumSuccessful(_)
\* the sum of the successful_iterations fields of a list of aggregated entries
SumSuccessful(agg) ==
    IF agg = <<>> THEN 0
    ELSE Head(agg).successful_iterations + SumSuccessful(Tail(agg))

\* C29: after any sequence of add_result calls, the aggregation partitions
\* the run-level counters: the sum of iterations over all aggregated entries
\* is total_queries, the sum of successful_iterations is successful_queries,
\* and the sum over the entries of (iterations - successful_iterations) is
\* failed_queries.
C29_AggregationPartitions ==
    report.exported =>
        LET agg == report.aggregated_results IN
        /\ SumIterations(agg) = report.summary.total_queries
        /\ SumSuccessful(agg) = report.summary.successful_queries
        /\ SumIterations(agg) - SumSuccessful(agg) = report.summary.failed_queries

\* C29 witness: three records over two queries were exported, a query with
\* a success and a failure and a query whose only record failed.
C29_Witness ==
    /\ report.exported
    /\ report.summary.total_queries = 3
    /\ report.summary.failed_queries = 2
    /\ Len(report.aggregated_results) = 2
    /\ \E k \in DOMAIN report.aggregated_results :
          /\ report.aggregated_results[k].iterations = 2
          /\ report.aggregated_results[k].successful_iterations = 1

====
